---- MODULE Spec2Model ----
(***************************************************************************)
(* Model of pythonbeid/card_reader.py: the CardReader class that reads a   *)
(* Belgian eID card over an APDU transport.                                *)
(*                                                                         *)
(* Bytes are integers 0..255 and byte buffers are sequences of bytes.      *)
(* Python str values are sequences of Unicode code points.  A datetime is  *)
(* the triple <<year, month, day>> (the code only parses dates).           *)
(***************************************************************************)
EXTENDS Integers, Sequences, FiniteSets, TLC

(***************************************************************************)
(* Module-level constants of card_reader.py                                *)
(***************************************************************************)
SW_OK == 144
SW_WRONG_LENGTH == 108
BlockSize == 256

ID == <<63, 0, 223, 1, 64, 49>>
ADDRESS == <<63, 0, 223, 1, 64, 51>>
PHOTO == <<63, 0, 223, 1, 64, 53>>

\* MAP_MOIS as a relation from key (code points) to the value's two digits.
MAP_MOIS ==
  { <<<<74, 65, 78, 86>>, <<48, 49>>>>, <<<<74, 65, 78>>, <<48, 49>>>>,
    <<<<70, 69, 86, 82>>, <<48, 50>>>>, <<<<70, 69, 86>>, <<48, 50>>>>,
    <<<<77, 65, 82, 83>>, <<48, 51>>>>, <<<<77, 65, 82>>, <<48, 51>>>>,
    <<<<65, 86, 82, 73>>, <<48, 52>>>>, <<<<65, 86, 82>>, <<48, 52>>>>,
    <<<<77, 65, 73>>, <<48, 53>>>>,
    <<<<74, 85, 73, 78>>, <<48, 54>>>>,
    <<<<74, 85, 73, 76>>, <<48, 55>>>>,
    <<<<65, 79, 85, 84>>, <<48, 56>>>>, <<<<65, 79, 85>>, <<48, 56>>>>,
    <<<<83, 69, 80, 84>>, <<48, 57>>>>, <<<<83, 69, 80>>, <<48, 57>>>>,
    <<<<79, 67, 84, 79>>, <<49, 48>>>>, <<<<79, 67, 84>>, <<49, 48>>>>,
    <<<<78, 79, 86, 69>>, <<49, 49>>>>, <<<<78, 79, 86>>, <<49, 49>>>>,
    <<<<68, 69, 67, 69>>, <<49, 50>>>>, <<<<68, 69, 67>>, <<49, 50>>>> }

(***************************************************************************)
(* Bounds of the model                                                     *)
(***************************************************************************)
MaxLen == 6          \* longest buffer handed to _parse_information alone
MaxLimit == 2        \* largest num_info_limit handed to it alone
MaxBlocks == 2       \* full 256-byte blocks of a simulated card's photo
MaxPartial == 2      \* length of the last, partial photo block
MaxLoopReads == 2    \* reads an arbitrary transport lets the photo loop make

(***************************************************************************)
(* Python built-ins used by the code                                       *)
(***************************************************************************)
Min(a, b) == IF a < b THEN a ELSE b

\* data[a:b] on a list, 0-based, clamped as Python slicing clamps.
Slice(data, a, b) ==
  IF a >= Len(data) THEN <<>> ELSE SubSeq(data, a + 1, Min(b, Len(data)))

IsCont(b) == b \in 128..191

\* Length of the well-formed UTF-8 sequence starting at bs[i], 0 if none.
Utf8SeqLen(bs, i) ==
  LET b == bs[i]
      has(k) == i + k <= Len(bs)
  IN  IF b < 128 THEN 1
      ELSE IF b \in 194..223
        THEN IF has(1) /\ IsCont(bs[i + 1]) THEN 2 ELSE 0
      ELSE IF b \in 224..239
        THEN IF /\ has(2)
                /\ IsCont(bs[i + 1])
                /\ IsCont(bs[i + 2])
                /\ (b = 224 => bs[i + 1] >= 160)
                /\ (b = 237 => bs[i + 1] <= 159)
             THEN 3 ELSE 0
      ELSE IF b \in 240..244
        THEN IF /\ has(3)
                /\ IsCont(bs[i + 1])
                /\ IsCont(bs[i + 2])
                /\ IsCont(bs[i + 3])
                /\ (b = 240 => bs[i + 1] >= 144)
                /\ (b = 244 => bs[i + 1] <= 143)
             THEN 4 ELSE 0
      ELSE 0

Utf8CodePoint(bs, i, n) ==
  IF n = 1 THEN bs[i]
  ELSE IF n = 2 THEN (bs[i] - 192) * 64 + (bs[i + 1] - 128)
  ELSE IF n = 3
    THEN (bs[i] - 224) * 4096 + (bs[i + 1] - 128) * 64 + (bs[i + 2] - 128)
  ELSE (bs[i] - 240) * 262144 + (bs[i + 1] - 128) * 4096
         + (bs[i + 2] - 128) * 64 + (bs[i + 3] - 128)

RECURSIVE Utf8Valid(_, _)
Utf8Valid(bs, i) ==
  IF i > Len(bs) THEN TRUE
  ELSE LET n == Utf8SeqLen(bs, i)
       IN  n > 0 /\ Utf8Valid(bs, i + n)

RECURSIVE Utf8Chars(_, _)
Utf8Chars(bs, i) ==
  IF i > Len(bs) THEN <<>>
  ELSE LET n == Utf8SeqLen(bs, i)
       IN  <<Utf8CodePoint(bs, i, n)>> \o Utf8Chars(bs, i + n)

\* DecodeOrEmpty with U+FFFD in place of an undecodable payload.
DecodeOrEmpty_Replace(chaine_bytes) ==
  IF Utf8Valid(chaine_bytes, 1) THEN Utf8Chars(chaine_bytes, 1)
  ELSE <<65533>>

\* bytes(chaine_bytes).decode("utf-8") with the except branch of the caller:
\* the text, or "" when the decoder raises UnicodeDecodeError.
DecodeOrEmpty(chaine_bytes) ==
  IF Utf8Valid(chaine_bytes, 1) THEN Utf8Chars(chaine_bytes, 1) ELSE <<>>

(***************************************************************************)
(* CardReader._parse_information                                           *)
(* The result is [exc, infos, idx]: exc is "" on return and the exception  *)
(* class when one is raised; idx is the cursor when the loop stopped.      *)
(***************************************************************************)
Raised(exc) == [exc |-> exc, infos |-> <<>>, idx |-> 0]

RECURSIVE ParseLoop(_, _, _, _)
ParseLoop(data, num_info_limit, idx, infos) ==
  IF ~(Len(infos) <= num_info_limit)
    THEN [exc |-> "", infos |-> infos, idx |-> idx]
  ELSE IF idx >= Len(data) \/ idx + 1 >= Len(data)
    THEN Raised("IndexError")
  ELSE LET len_info == data[idx + 2]
           chaine_bytes == Slice(data, idx + 2, idx + 2 + len_info)
       IN  ParseLoop(data, num_info_limit, idx + 2 + len_info,
                     Append(infos, DecodeOrEmpty(chaine_bytes)))

_parse_information(data, num_info_limit) ==
  ParseLoop(data, num_info_limit, 0, <<>>)

(***************************************************************************)
(* str.split(), datetime.strptime and base64.b64encode                     *)
(***************************************************************************)
\* Code points for which str.isspace() holds.
Whitespace ==
  (9..13) \cup (28..32) \cup {133, 160, 5760} \cup (8192..8202)
    \cup {8232, 8233, 8239, 8287, 12288}

\* str.split() with no separator: the maximal runs of non-whitespace.
RECURSIVE SplitFrom(_, _, _)
SplitFrom(s, i, word) ==
  IF i > Len(s)
    THEN IF word = <<>> THEN <<>> ELSE <<word>>
  ELSE IF s[i] \in Whitespace
    THEN IF word = <<>> THEN SplitFrom(s, i + 1, <<>>)
         ELSE <<word>> \o SplitFrom(s, i + 1, <<>>)
  ELSE SplitFrom(s, i + 1, Append(word, s[i]))

Split(s) == SplitFrom(s, 1, <<>>)

IsDigit(c) == c \in 48..57
DigitVal(c) == c - 48

\* Length matched at s[i] by strptime's pattern for %d,
\* (3[0-1]|[1-2]\d|0[1-9]|[1-9]| [1-9]); 0 when nothing matches before sep.
DayLen(s, i, sep) ==
  IF /\ i + 2 <= Len(s)
     /\ s[i + 2] = sep
     /\ \/ s[i] = 51 /\ s[i + 1] \in {48, 49}
        \/ s[i] \in {49, 50} /\ IsDigit(s[i + 1])
        \/ s[i] = 48 /\ s[i + 1] \in 49..57
        \/ s[i] = 32 /\ s[i + 1] \in 49..57
    THEN 2
  ELSE IF i + 1 <= Len(s) /\ s[i + 1] = sep /\ s[i] \in 49..57
    THEN 1
  ELSE 0

\* Length matched at s[i] by the pattern for %m, (1[0-2]|0[1-9]|[1-9]).
MonthLen(s, i, sep) ==
  IF /\ i + 2 <= Len(s)
     /\ s[i + 2] = sep
     /\ \/ s[i] = 49 /\ s[i + 1] \in {48, 49, 50}
        \/ s[i] = 48 /\ s[i + 1] \in 49..57
    THEN 2
  ELSE IF i + 1 <= Len(s) /\ s[i + 1] = sep /\ s[i] \in 49..57
    THEN 1
  ELSE 0

\* int() of the n characters of s from i (a space counts as nothing).
RECURSIVE IntOf(_, _, _)
IntOf(s, i, n) ==
  IF n = 0 THEN 0
  ELSE (IF s[i + n - 1] = 32 THEN 0 ELSE DigitVal(s[i + n - 1]))
         + 10 * IntOf(s, i, n - 1)

IsLeap(y) == (y % 4 = 0 /\ y % 100 # 0) \/ y % 400 = 0

DaysInMonth(y, m) ==
  IF m = 2 THEN (IF IsLeap(y) THEN 29 ELSE 28)
  ELSE IF m \in {4, 6, 9, 11} THEN 30 ELSE 31

\* What the date parsers yield when they raise ValueError (no date).
ValueError == <<>>

\* datetime.strptime(s, "%d<sep>%m<sep>%Y"): <<year, month, day>>, or
\* ValueError when the text does not match or names no calendar day.
Strptime(s, sep) ==
  LET dl == DayLen(s, 1, sep)
      ml == IF dl = 0 THEN 0 ELSE MonthLen(s, dl + 2, sep)
      yi == dl + ml + 3
  IN  IF dl = 0 \/ ml = 0 THEN ValueError
      ELSE IF Len(s) # yi + 3 THEN ValueError
      ELSE IF \E k \in yi..(yi + 3) : ~IsDigit(s[k]) THEN ValueError
      ELSE LET d == IntOf(s, 1, dl)
               m == IntOf(s, dl + 2, ml)
               y == IntOf(s, yi, 4)
           IN  IF y < 1 \/ d > DaysInMonth(y, m) THEN ValueError
               ELSE <<y, m, d>>

\* MoisGet with no default: an unknown key yields no month.
MoisGet_NoDefault(mois) ==
  IF \E e \in MAP_MOIS : e[1] = mois
    THEN (CHOOSE e \in MAP_MOIS : e[1] = mois)[2]
    ELSE <<>>

\* MAP_MOIS.get(mois, "01")
MoisGet(mois) ==
  IF \E e \in MAP_MOIS : e[1] = mois
    THEN (CHOOSE e \in MAP_MOIS : e[1] = mois)[2]
    ELSE <<48, 49>>

(***************************************************************************)
(* CardReader._parse_date                                                  *)
(***************************************************************************)
_parse_date(date_str) ==
  LET parts == Split(date_str)
  IN  IF Len(parts) # 3 THEN ValueError
      ELSE LET jour == parts[1]
               mois == MoisGet(parts[2])
               annee == parts[3]
           IN  Strptime(jour \o <<47>> \o mois \o <<47>> \o annee, 47)

\* The character of the standard base64 alphabet for a 6-bit value.
B64Char(v) ==
  IF v < 26 THEN 65 + v
  ELSE IF v < 52 THEN 97 + (v - 26)
  ELSE IF v < 62 THEN 48 + (v - 52)
  ELSE IF v = 62 THEN 43 ELSE 47

\* base64.b64encode(bs).decode('utf-8'): every three bytes give four
\* characters, the last group padded with '='.
B64Encode(bs) ==
  LET n == Len(bs)
      byte(k) == IF k <= n THEN bs[k] ELSE 0
  IN  [j \in 1..(4 * ((n + 2) \div 3)) |->
         LET g == (j - 1) \div 4
             b1 == byte(3 * g + 1)
             b2 == byte(3 * g + 2)
             b3 == byte(3 * g + 3)
         IN  CASE (j - 1) % 4 = 0 -> B64Char(b1 \div 4)
               [] (j - 1) % 4 = 1 -> B64Char((b1 % 4) * 16 + b2 \div 16)
               [] (j - 1) % 4 = 2 ->
                    IF 3 * g + 2 > n THEN 61
                    ELSE B64Char((b2 % 16) * 4 + b3 \div 64)
               [] OTHER ->
                    IF 3 * g + 3 > n THEN 61 ELSE B64Char(b3 % 64)]

(***************************************************************************)
(* APDU commands built by _read_data and _read_photo                       *)
(***************************************************************************)
\* SelectCmd that names the identity file whatever file is asked for.
SelectCmd_AlwaysID(file_id) == <<0, 164, 8, 12, Len(ID)>> \o ID

SelectCmd(file_id) == <<0, 164, 8, 12, Len(file_id)>> \o file_id
ReadCmd(offset, length) == <<0, 176, offset, 0, length>>

IsSelect(cmd) == cmd[2] = 164
IsRead(cmd) == cmd[2] = 176
SelectedFile(cmd) == SubSeq(cmd, 6, Len(cmd))

(***************************************************************************)
(* The transport behind self._cnx.transmit.  It is either arbitrary (any   *)
(* answer to any command) or a simulated card that holds three files and   *)
(* answers SELECT FILE and READ BINARY as ISO 7816-4 prescribes.           *)
(***************************************************************************)
TLV(tag, payload) == <<tag, Len(payload)>> \o payload

GoldenIdentity ==
  << <<65, 66, 67, 49, 50, 51>>,                            \* "ABC123"
     <<67, 72, 73, 80>>,                                    \* "CHIP"
     <<48, 49, 46, 48, 49, 46, 50, 48, 50, 48>>,            \* "01.01.2020"
     <<48, 49, 46, 48, 49, 46, 50, 48, 51, 48>>,            \* "01.01.2030"
     <<78, 97, 109, 117, 114>>,                             \* "Namur"
     <<56, 48, 48, 49, 49, 53, 49, 50, 51, 52, 53>>,        \* "80011512345"
     <<68, 117, 112, 111, 110, 116>>,                       \* "Dupont"
     <<74, 101, 97, 110>>,                                  \* "Jean"
     <<74, 114>>,                                           \* "Jr"
     <<66, 101, 108, 103, 101>>,                            \* "Belge"
     <<76, 105, 195, 168, 103, 101>>,                       \* "Liège"
     <<49, 53, 32, 74, 65, 78, 86, 32, 49, 57, 56, 48>>,    \* "15 JANV 1980"
     <<77>> >>                                              \* "M"

GoldenAddress ==
  << <<82, 117, 101, 32, 72, 97, 117, 116, 101, 32, 49>>,   \* "Rue Haute 1"
     <<53, 48, 48, 48>>,                                    \* "5000"
     <<78, 97, 109, 117, 114>> >>                           \* "Namur"

\* The fields as the card stores them: tag i, length, payload.
RECURSIVE EncodeFields(_, _)
EncodeFields(fields, i) ==
  IF i > Len(fields) THEN <<>>
  ELSE TLV(i, fields[i]) \o EncodeFields(fields, i + 1)

\* Identity files a simulated card may hold: the golden record, one whose
\* validity start is not DD.MM.YYYY, one with five fields only, and one
\* whose last field declares five bytes and holds one.
IdFiles ==
  << EncodeFields(GoldenIdentity, 1),
     EncodeFields([GoldenIdentity EXCEPT
                     ![3] = <<50, 48, 50, 48, 45, 48, 49, 45, 48, 49>>], 1),
     EncodeFields(SubSeq(GoldenIdentity, 1, 5), 1),
     EncodeFields(SubSeq(GoldenIdentity, 1, 12), 1) \o <<13, 5, 77>> >>

\* Address files: the golden one and one with two fields only.
AddrFiles ==
  << EncodeFields(GoldenAddress, 1),
     EncodeFields(SubSeq(GoldenAddress, 1, 2), 1) >>

\* A photo of n full blocks and p more bytes; successive blocks differ.
PhotoFile(n, p) ==
  [i \in 1..(n * BlockSize + p) |->
     ((i - 1) + (i - 1) \div BlockSize) % 256]

AnyTransport == [kind |-> "any", n |-> 0, p |-> 0, id |-> 0, addr |-> 0]

Cards ==
  [kind : {"card"}, n : 0..MaxBlocks, p : 1..MaxPartial,
   id : 1..Len(IdFiles), addr : 1..Len(AddrFiles)]

CardFile(card, file_id) ==
  IF file_id = ID THEN IdFiles[card.id]
  ELSE IF file_id = ADDRESS THEN AddrFiles[card.addr]
  ELSE PhotoFile(card.n, card.p)

Response(data, sw1, sw2) == [data |-> data, sw1 |-> sw1, sw2 |-> sw2]

\* The simulated card's answer to cmd when file sel is selected.
CardAnswer(card, sel, cmd) ==
  IF IsSelect(cmd)
    THEN IF SelectedFile(cmd) \in {ID, ADDRESS, PHOTO}
           THEN Response(<<>>, 144, 0)
           ELSE Response(<<>>, 106, 130)
  ELSE IF sel \notin {ID, ADDRESS, PHOTO}
    THEN Response(<<>>, 105, 134)
  ELSE LET content == CardFile(card, sel)
           start == cmd[3] * 256 + cmd[4]
           le == cmd[5]
           rest == Len(content) - start
       IN  IF start < 0 \/ rest <= 0 THEN Response(<<>>, 107, 0)
           ELSE IF le > rest THEN Response(<<>>, 108, rest)
           ELSE Response(SubSeq(content, start + 1, start + le), 144, 0)

\* What an arbitrary transport may answer: success, wrong length, or file
\* not found, each with or without a payload.
AnyAnswers ==
  { Response(d, st[1], st[2]) :
      d \in {<<>>, IdFiles[1]},
      st \in {<<144, 0>>, <<108, 2>>, <<106, 130>>} }

Answers(tr, sel, cmd) ==
  IF tr.kind = "any" THEN AnyAnswers ELSE {CardAnswer(tr, sel, cmd)}

(***************************************************************************)
(* State                                                                   *)
(***************************************************************************)
VARIABLES
  transport,     \* the environment: AnyTransport or a simulated card
  selected,      \* the file the card has selected
  pc,            \* where the program is
  photo,         \* argument of the running read_informations call
  file,          \* file_id of the running _read_data call
  data, sw1, sw2,  \* locals of _read_data / _read_photo
  informations,  \* local dict of read_informations
  photo_bytes, offset,   \* locals of _read_photo
  attrs,         \* attributes set on the CardReader instance by setattr
  result,        \* how the last constructor or read_informations call ended
  sent, rcvd,    \* commands sent and responses received by the current read
  decoded,       \* the buffers this call has decoded into informations
  attrs0,        \* attrs when the call began
  wrong2,        \* some read of this call had its retry answered 0x6C
  unclean,       \* some read of this call ended with sw1 other than 0x90
  tried,         \* what each connection attempt of __init__ raised
  arg, ret       \* argument and result of a function applied on its own

vars ==
  <<transport, selected, pc, photo, file, data, sw1, sw2, informations,
    photo_bytes, offset, attrs, result, sent, rcvd, decoded, attrs0,
    wrong2, unclean, tried, arg, ret>>

EmptyDict == [k \in {} |-> <<>>]
NoFile == <<>>

Outcome(status, exc, value) ==
  [status |-> status, exc |-> exc, value |-> value]

NoOutcome == Outcome("none", "", EmptyDict)

\* Nothing has been read yet; the transport is tr.
Idle(tr) ==
  /\ transport = tr
  /\ selected = NoFile
  /\ photo = FALSE
  /\ file = NoFile
  /\ data = <<>>
  /\ sw1 = 0
  /\ sw2 = 0
  /\ informations = EmptyDict
  /\ photo_bytes = <<>>
  /\ offset = 0
  /\ attrs = EmptyDict
  /\ result = NoOutcome
  /\ sent = <<>>
  /\ rcvd = <<>>
  /\ decoded = <<>>
  /\ attrs0 = EmptyDict
  /\ wrong2 = FALSE
  /\ unclean = FALSE
  /\ tried = <<>>

Init ==
  /\ \E tr \in {AnyTransport} \cup Cards : Idle(tr)
  /\ pc = "new"
  /\ arg = <<>>
  /\ ret = <<>>

(***************************************************************************)
(* CardReader.__init__                                                     *)
(***************************************************************************)
\* InitError with one message for every failure.
InitError_Generic(raised) == "Erreur de connexion à la carte"

\* The RuntimeError message for what readers()[0].createConnection() and
\* connect() raised.
InitError(raised) ==
  IF raised = "IndexError" THEN "Pas de lecteur disponible"
  ELSE IF raised = "NoCardException" THEN "Pas de carte disponible"
  ELSE "Erreur de connexion à la carte"

Connect(raised) ==
  /\ pc = "new"
  /\ tried' = Append(tried, raised)
  /\ IF raised = ""
       THEN /\ pc' = "idle"
            /\ UNCHANGED result
       ELSE /\ pc' = "dead"
            /\ result' = Outcome("raised", InitError(raised), EmptyDict)
  /\ UNCHANGED <<unclean, transport, selected, photo, file, data, sw1, sw2,
                 informations, photo_bytes, offset, attrs, sent, rcvd,
                 decoded, attrs0, wrong2, arg, ret>>

(***************************************************************************)
(* CardReader._send_apdu: one transmit, answered by the transport          *)
(***************************************************************************)
_send_apdu(apdu, r) ==
  /\ sent' = Append(sent, apdu)
  /\ rcvd' = Append(rcvd, r)
  /\ selected' = IF IsSelect(apdu) THEN SelectedFile(apdu) ELSE selected

(***************************************************************************)
(* CardReader._read_data                                                   *)
(***************************************************************************)
\* FirstRead that asks for 256 bytes whatever the SELECT answered.
FirstRead_Always256(s1, s2) == ReadCmd(0, 256)

\* The READ BINARY that follows the SELECT.
FirstRead(s1, s2) ==
  IF s1 = SW_WRONG_LENGTH THEN ReadCmd(0, s2) ELSE ReadCmd(0, 256)

\* NeedsRetry with a retry on every status other than success.
NeedsRetry_AnyFailure(s1) == s1 # SW_OK

\* Whether the read is issued once more.
NeedsRetry(s1) == s1 = SW_WRONG_LENGTH

\* The READ BINARY issued once more.
RetryRead(s2) == ReadCmd(0, s2)

SendSelect ==
  /\ pc = "select"
  /\ \E r \in Answers(transport, selected, SelectCmd(file)) :
       /\ _send_apdu(SelectCmd(file), r)
       /\ sw1' = r.sw1
       /\ sw2' = r.sw2
  /\ pc' = "read"
  /\ UNCHANGED <<tried, unclean, transport, photo, file, data, informations,
                 photo_bytes, offset, attrs, result, decoded, attrs0,
                 wrong2, arg, ret>>

SendRead ==
  /\ pc = "read"
  /\ LET cmd == FirstRead(sw1, sw2)
     IN  \E r \in Answers(transport, selected, cmd) :
           /\ _send_apdu(cmd, r)
           /\ data' = r.data
           /\ sw1' = r.sw1
           /\ sw2' = r.sw2
           /\ pc' = IF NeedsRetry(r.sw1) THEN "retry" ELSE "ret"
  /\ UNCHANGED <<tried, unclean, transport, photo, file, informations,
                 photo_bytes, offset, attrs, result, decoded, attrs0,
                 wrong2, arg, ret>>

SendRetry ==
  /\ pc = "retry"
  /\ LET cmd == RetryRead(sw2)
     IN  \E r \in Answers(transport, selected, cmd) :
           /\ _send_apdu(cmd, r)
           /\ data' = r.data
           /\ sw1' = r.sw1
           /\ sw2' = r.sw2
           /\ wrong2' = (wrong2 \/ r.sw1 = SW_WRONG_LENGTH)
  /\ pc' = "ret"
  /\ UNCHANGED <<tried, unclean, transport, photo, file, informations,
                 photo_bytes, offset, attrs, result, decoded, attrs0, arg,
                 ret>>

(***************************************************************************)
(* CardReader.read_informations                                            *)
(***************************************************************************)
Built(value) == [exc |-> "", value |-> value]
Failed(exc) == [exc |-> exc, value |-> EmptyDict]

\* IdentityOf with surname and given names exchanged.
IdentityOf_Swapped(infos) ==
  LET debut_val == Strptime(infos[3], 46)
      fin_val == Strptime(infos[4], 46)
      date_naissance == _parse_date(infos[12])
  IN  IF ValueError \in {debut_val, fin_val, date_naissance}
        THEN Failed("ValueError")
        ELSE Built([num_carte |-> infos[1],
                    debut_val |-> debut_val,
                    fin_val |-> fin_val,
                    commune_delivrance |-> infos[5],
                    num_nat |-> infos[6],
                    nom |-> infos[8],
                    prenoms |-> infos[7],
                    suffixe |-> infos[9],
                    nationalite |-> infos[10],
                    lieu_naissance |-> infos[11],
                    date_naissance |-> date_naissance,
                    sexe |-> infos[13]])

\* The dict literal built from the identity fields (infos is 1-based here).
IdentityOf(infos) ==
  LET debut_val == Strptime(infos[3], 46)
      fin_val == Strptime(infos[4], 46)
      date_naissance == _parse_date(infos[12])
  IN  IF ValueError \in {debut_val, fin_val, date_naissance}
        THEN Failed("ValueError")
        ELSE Built([num_carte |-> infos[1],
                    debut_val |-> debut_val,
                    fin_val |-> fin_val,
                    commune_delivrance |-> infos[5],
                    num_nat |-> infos[6],
                    nom |-> infos[7],
                    prenoms |-> infos[8],
                    suffixe |-> infos[9],
                    nationalite |-> infos[10],
                    lieu_naissance |-> infos[11],
                    date_naissance |-> date_naissance,
                    sexe |-> infos[13]])

\* The three entries added from the address fields.
AddressOf(address_infos) ==
  [adresse |-> address_infos[1],
   code_postal |-> address_infos[2],
   localite |-> address_infos[3]]

\* informations["photo"] = base64.b64encode(photo_data).decode('utf-8')
WithPhoto(infos, photo_data) ==
  [photo |-> B64Encode(photo_data)] @@ infos

\* ReadsPhoto with the flag ignored.
ReadsPhoto_Always(ph) == TRUE

\* if photo:
ReadsPhoto(ph) == ph
\* SetAttrs that replaces the instance's attributes by the record.
SetAttrs_Replace(old, infos) == infos

\* for attribute, value in informations.items(): setattr(self, ...)
SetAttrs(old, infos) == infos @@ old

\* The call ends: its frame and the history of its reads are dropped.
EndCall(outcome) ==
  /\ pc' = "idle"
  /\ result' = outcome
  /\ file' = NoFile
  /\ data' = <<>>
  /\ sw1' = 0
  /\ sw2' = 0
  /\ informations' = EmptyDict
  /\ photo_bytes' = <<>>
  /\ offset' = 0
  /\ sent' = <<>>
  /\ rcvd' = <<>>

\* Raise with the attributes decoded so far already set on the instance.
Raise_AfterAssign(exc) ==
  /\ EndCall(Outcome("raised", exc, EmptyDict))
  /\ attrs' = informations @@ attrs
  /\ UNCHANGED <<tried, unclean, transport, selected, photo, decoded,
                 attrs0, wrong2, arg, ret>>

\* Any exception leaves read_informations before the setattr loop.
Raise(exc) ==
  /\ EndCall(Outcome("raised", exc, EmptyDict))
  /\ UNCHANGED <<tried, unclean, transport, selected, photo, attrs, decoded,
                 attrs0, wrong2, arg, ret>>

\* _read_data(file_id) is entered.
Enter_read_data(file_id) ==
  /\ file' = file_id
  /\ pc' = "select"
  /\ sent' = <<>>
  /\ rcvd' = <<>>

CallReadInformations(ph) ==
  /\ pc = "idle"
  /\ photo' = ph
  /\ Enter_read_data(ID)
  /\ result' = NoOutcome
  /\ decoded' = <<>>
  /\ attrs0' = attrs
  /\ wrong2' = FALSE
  /\ unclean' = FALSE
  /\ UNCHANGED <<tried, transport, selected, data, sw1, sw2, informations,
                 photo_bytes, offset, attrs, arg, ret>>

DecodeIdentity ==
  /\ pc = "ret"
  /\ file = ID
  /\ LET parsed == _parse_information(data, 12)
         built == IdentityOf(parsed.infos)
     IN  IF parsed.exc # "" THEN Raise(parsed.exc)
         ELSE IF built.exc # "" THEN Raise(built.exc)
         ELSE /\ informations' = built.value
              /\ decoded' = Append(decoded, data)
              /\ unclean' = (unclean \/ sw1 # SW_OK)
              /\ Enter_read_data(ADDRESS)
              /\ UNCHANGED <<tried, transport, selected, photo, data, sw1,
                             sw2, photo_bytes, offset, attrs, result,
                             attrs0, wrong2, arg, ret>>

DecodeAddress ==
  /\ pc = "ret"
  /\ file = ADDRESS
  /\ LET parsed == _parse_information(data, 2)
     IN  IF parsed.exc # "" THEN Raise(parsed.exc)
         ELSE /\ informations' = AddressOf(parsed.infos) @@ informations
              /\ decoded' = Append(decoded, data)
              /\ unclean' = (unclean \/ sw1 # SW_OK)
              /\ IF ReadsPhoto(photo)
                   THEN Enter_read_data(PHOTO)
                   ELSE /\ pc' = "assign"
                        /\ UNCHANGED <<file, sent, rcvd>>
              /\ UNCHANGED <<tried, transport, selected, photo, data, sw1,
                             sw2, photo_bytes, offset, attrs, result,
                             attrs0, wrong2, arg, ret>>

EncodePhoto ==
  /\ pc = "photo_ret"
  /\ informations' = WithPhoto(informations, photo_bytes)
  /\ pc' = "assign"
  /\ unclean' = (unclean \/ sw1 # SW_OK)
  /\ UNCHANGED <<tried, transport, selected, photo, file, data, sw1, sw2,
                 photo_bytes, offset, attrs, result, sent, rcvd, decoded,
                 attrs0, wrong2, arg, ret>>

Finish ==
  /\ pc = "assign"
  /\ attrs' = SetAttrs(attrs, informations)
  /\ EndCall(Outcome("ok", "", informations))
  /\ UNCHANGED <<tried, unclean, transport, selected, photo, decoded,
                 attrs0, wrong2, arg, ret>>

(***************************************************************************)
(* CardReader._read_photo                                                  *)
(***************************************************************************)
\* FirstOffset that starts one block before the file.
FirstOffset_Before == 0 - 1

\* offset = 0 before the loop.
FirstOffset == 0

PhotoInit ==
  /\ pc = "ret"
  /\ file = PHOTO
  /\ photo_bytes' = <<>>
  /\ offset' = FirstOffset
  /\ pc' = "loop"
  /\ UNCHANGED <<tried, unclean, transport, selected, photo, file, data,
                 sw1, sw2, informations, attrs, result, sent, rcvd, decoded,
                 attrs0, wrong2, arg, ret>>

\* while sw1 == 0x90
LoopContinues(s1) == s1 = SW_OK

\* FixFollows with a corrected read after every status that ends the loop.
FixFollows_AnyFailure(s1) == s1 # SW_OK

\* if sw1 == 0x6C, after the loop
FixFollows(s1) == s1 = SW_WRONG_LENGTH

\* Extend that puts the new data before the bytes read so far.
Extend_Before(bytes, d) == d \o bytes

\* photo_bytes.extend(data)
Extend(bytes, d) == bytes \o d

\* FixOffset without the decrement.
FixOffset_Same(o) == o

\* offset -= 1 before the corrected read.
FixOffset(o) == o - 1

\* One iteration of the while loop.  An arbitrary transport stops
\* answering 0x90 once the loop has made MaxLoopReads reads.
LoopRead ==
  /\ pc = "loop"
  /\ LoopContinues(sw1)
  /\ LET cmd == ReadCmd(offset, 256)
     IN  \E r \in Answers(transport, selected, cmd) :
           /\ _send_apdu(cmd, r)
           /\ transport.kind = "any" /\ offset + 1 >= MaxLoopReads
                => r.sw1 # SW_OK
           /\ data' = r.data
           /\ sw1' = r.sw1
           /\ sw2' = r.sw2
           /\ photo_bytes' = Extend(photo_bytes, r.data)
  /\ offset' = offset + 1
  /\ UNCHANGED <<tried, unclean, transport, pc, photo, file, informations,
                 attrs, result, decoded, attrs0, wrong2, arg, ret>>

\* The if after the loop, taken: one read with the length the card named.
FixRead ==
  /\ pc = "loop"
  /\ ~LoopContinues(sw1)
  /\ FixFollows(sw1)
  /\ LET cmd == ReadCmd(FixOffset(offset), sw2)
     IN  \E r \in Answers(transport, selected, cmd) :
           /\ _send_apdu(cmd, r)
           /\ data' = r.data
           /\ sw1' = r.sw1
           /\ sw2' = r.sw2
           /\ photo_bytes' = Extend(photo_bytes, r.data)
  /\ offset' = FixOffset(offset)
  /\ pc' = "photo_ret"
  /\ UNCHANGED <<tried, unclean, transport, photo, file, informations,
                 attrs, result, decoded, attrs0, wrong2, arg, ret>>

\* The if after the loop, not taken.
LoopEnd ==
  /\ pc = "loop"
  /\ ~LoopContinues(sw1)
  /\ ~FixFollows(sw1)
  /\ pc' = "photo_ret"
  /\ UNCHANGED <<tried, unclean, transport, selected, photo, file, data,
                 sw1, sw2, informations, photo_bytes, offset, attrs, result,
                 sent, rcvd, decoded, attrs0, wrong2, arg, ret>>

Next ==
  \/ \E raised \in {"", "IndexError", "NoCardException",
                    "CardConnectionException"} : Connect(raised)
  \/ \E ph \in BOOLEAN : CallReadInformations(ph)
  \/ SendSelect
  \/ SendRead
  \/ SendRetry
  \/ DecodeIdentity
  \/ DecodeAddress
  \/ PhotoInit
  \/ LoopRead
  \/ FixRead
  \/ LoopEnd
  \/ EncodePhoto
  \/ Finish

Spec == Init /\ [][Next]_vars

(***************************************************************************)
(* _parse_information applied on its own to every buffer of at most        *)
(* MaxLen bytes: small tags and lengths, an ASCII letter, and the two      *)
(* bytes of a two-byte UTF-8 character (each invalid without the other).   *)
(***************************************************************************)
ParseBytes == {0, 1, 2, 65, 195, 169}

Buffers == UNION { [1..n -> ParseBytes] : n \in 0..MaxLen }

InitParse ==
  /\ Idle(AnyTransport)
  /\ pc = "parse"
  /\ arg \in [data : Buffers, limit : 0..MaxLimit]
  /\ ret = <<>>

ApplyParse ==
  /\ pc = "parse"
  /\ ret' = _parse_information(arg.data, arg.limit)
  /\ pc' = "parsed"
  /\ UNCHANGED <<tried, unclean, transport, selected, photo, file, data,
                 sw1, sw2, informations, photo_bytes, offset, attrs, result,
                 sent, rcvd, decoded, attrs0, wrong2, arg>>

SpecParse == InitParse /\ [][ApplyParse]_vars

(***************************************************************************)
(* _parse_date applied on its own to "day month year" strings              *)
(***************************************************************************)
DayTokens ==
  { <<49>>, <<49, 53>>, <<50, 56>>, <<50, 57>>, <<51, 49>>,   \* 1 15 28 29 31
    <<48, 53>>, <<51, 50>>, <<48>>, <<49, 47, 49>> }          \* 05 32 0 1/1

MonthTokens ==
  { e[1] : e \in MAP_MOIS }
    \cup { <<88, 88, 88, 88>>, <<106, 97, 110, 118>>,         \* XXXX janv
           <<48, 49>>, <<74, 65, 78, 86, 46>> }               \* 01 JANV.

YearTokens ==
  { <<49, 57, 56, 48>>, <<50, 48, 48, 48>>,                   \* 1980 2000
    <<48, 48, 48, 48>>, <<56, 48>> }                          \* 0000 80

DateStrings ==
  { d \o <<32>> \o m \o <<32>> \o y :
      d \in DayTokens, m \in MonthTokens, y \in YearTokens }
    \cup { d \o <<32>> \o y : d \in DayTokens, y \in YearTokens }
    \cup { <<32>> \o d \o <<9, 32>> \o <<74, 85, 73, 78>> \o <<10>> \o y
             \o <<32>> : d \in DayTokens, y \in YearTokens }

InitDate ==
  /\ Idle(AnyTransport)
  /\ pc = "date"
  /\ arg \in DateStrings
  /\ ret = <<>>

ApplyDate ==
  /\ pc = "date"
  /\ ret' = _parse_date(arg)
  /\ pc' = "dated"
  /\ UNCHANGED <<tried, unclean, transport, selected, photo, file, data,
                 sw1, sw2, informations, photo_bytes, offset, attrs, result,
                 sent, rcvd, decoded, attrs0, wrong2, arg>>

SpecDate == InitDate /\ [][ApplyDate]_vars

(***************************************************************************)
(* _read_photo on photo files at the limit of the one-byte block offset    *)
(***************************************************************************)
\* Cards whose photo file is 255 or 256 full blocks long, with and without
\* a partial block after them.
BigCards ==
  [kind : {"card"}, n : {255, 256}, p : {0, 1}, id : {1}, addr : {1}]

\* The first read_informations(photo=True) call on card tr, stopped in
\* the loop of _read_photo when all the full blocks have been read: the
\* state that call is in after tr.n iterations.
InLoop(tr) ==
  LET content == PhotoFile(tr.n, tr.p)
      Block(k) == SubSeq(content, k * 256 + 1, (k + 1) * 256)
  IN
  /\ transport = tr
  /\ selected = PHOTO
  /\ pc = "loop"
  /\ photo = TRUE
  /\ file = PHOTO
  /\ data = Block(tr.n - 1)
  /\ sw1 = SW_OK
  /\ sw2 = 0
  /\ informations =
       AddressOf(_parse_information(AddrFiles[tr.addr], 2).infos) @@
         IdentityOf(_parse_information(IdFiles[tr.id], 12).infos).value
  /\ photo_bytes = SubSeq(content, 1, tr.n * 256)
  /\ offset = tr.n
  /\ attrs = EmptyDict
  /\ result = NoOutcome
  /\ sent = <<SelectCmd(PHOTO), ReadCmd(0, 256)>> \o
              [k \in 1..tr.n |-> ReadCmd(k - 1, 256)]
  /\ rcvd = <<Response(<<>>, SW_OK, 0), Response(Block(0), SW_OK, 0)>> \o
              [k \in 1..tr.n |-> Response(Block(k - 1), SW_OK, 0)]
  /\ decoded = <<IdFiles[tr.id], AddrFiles[tr.addr]>>
  /\ attrs0 = EmptyDict
  /\ wrong2 = FALSE
  /\ unclean = FALSE
  /\ tried = <<"">>

\* A reader just constructed on one of the cards, or the first photo call
\* on it at the point InLoop describes.
InitBig ==
  /\ \E tr \in BigCards : (Idle(tr) /\ pc = "new") \/ InLoop(tr)
  /\ arg = <<>>
  /\ ret = <<>>

SpecBig == InitBig /\ [][Next]_vars

(***************************************************************************)
(* Properties                                                              *)
(***************************************************************************)
InReadData == pc \in {"select", "read", "retry", "ret"}

\* C1: one _read_data call sends SELECT FILE for its file, then one READ
\* BINARY, then one more READ BINARY (offset 0, length = sw2 of the first
\* read) exactly when the first read answered sw1 = 0x6C; it sends no
\* third read and returns the data and status bytes of its last read.
C1_ReadDataSequence ==
  /\ InReadData => Len(sent) <= 3
  /\ pc = "ret" =>
       /\ Len(sent) \in {2, 3}
       /\ Len(rcvd) = Len(sent)
       /\ sent[1] = <<0, 164, 8, 12, 6>> \o file
       /\ sent[2][2] = 176
       /\ (Len(sent) = 3) <=> (rcvd[2].sw1 = 108)
       /\ Len(sent) = 3 => sent[3] = <<0, 176, 0, 0, rcvd[2].sw2>>
       /\ <<data, sw1, sw2>> =
            <<rcvd[Len(rcvd)].data, rcvd[Len(rcvd)].sw1, rcvd[Len(rcvd)].sw2>>

\* A first read answered 0x6C whose corrected read succeeded with data:
\* two reads were sent and the second answer's data is returned.
C1_Witness ==
  /\ pc = "ret"
  /\ Len(sent) = 3
  /\ rcvd[2].sw1 = 108
  /\ rcvd[3].sw1 = 144
  /\ rcvd[3].data # <<>>
  /\ data = rcvd[3].data

OnCard == transport.kind = "card"

\* C2 as stated: reading the photo of a card that holds n full blocks and
\* one partial block of p bytes returns n*256 + p bytes after exactly
\* n + 2 transmit calls.
C2_AsStated ==
  pc = "photo_ret" /\ OnCard =>
    /\ Len(photo_bytes) = transport.n * 256 + transport.p
    /\ Len(sent) = transport.n + 2

\* C2 (amended): it returns n*256 + p bytes, after n + 4 transmit calls
\* when n >= 1 (the select, the initial read whose data is dropped, n full
\* reads, the read answered 0x6C and the corrected read) and after 5 when
\* n = 0 (the initial read is itself answered 0x6C and corrected).
C2_PhotoLengthAndCalls ==
  pc = "photo_ret" /\ OnCard =>
    /\ Len(photo_bytes) = transport.n * 256 + transport.p
    /\ Len(sent) = IF transport.n = 0 THEN 5 ELSE transport.n + 4

C2_Witness ==
  /\ pc = "photo_ret"
  /\ OnCard
  /\ transport.n = 2
  /\ Len(photo_bytes) = 512 + transport.p
  /\ Len(sent) = 6

\* C3: when the corrected retry of a read is itself answered 0x6C the read
\* is aborted: _read_data does not return its data for decoding and
\* read_informations returns no record built from it.
C3_SecondWrongLengthAborts ==
  /\ pc = "ret" => ~(Len(sent) = 3 /\ rcvd[3].sw1 = 108)
  /\ result.status = "ok" => ~wrong2

\* The fields of a buffer as its length bytes lay them out: the 0-based
\* start of field k (k = 1, 2, ...), or -1 when an earlier field has no
\* header.
RECURSIVE FieldStart(_, _)
FieldStart(buf, k) ==
  IF k = 1 THEN 0
  ELSE LET s == FieldStart(buf, k - 1)
       IN  IF s < 0 \/ s + 2 > Len(buf) THEN -1 ELSE s + 2 + buf[s + 2]

HasHeader(buf, k) ==
  FieldStart(buf, k) >= 0 /\ FieldStart(buf, k) + 2 <= Len(buf)

FieldEnd(buf, k) == FieldStart(buf, k) + 2 + buf[FieldStart(buf, k) + 2]

Complete(buf, k) == HasHeader(buf, k) /\ FieldEnd(buf, k) <= Len(buf)

Overruns(buf, k) == HasHeader(buf, k) /\ FieldEnd(buf, k) > Len(buf)

Payload(buf, k) ==
  SubSeq(buf, FieldStart(buf, k) + 3, Min(FieldEnd(buf, k), Len(buf)))

\* The UTF-8 encoding of a text.
RECURSIVE Utf8Encode(_)
Utf8Encode(text) ==
  IF text = <<>> THEN <<>>
  ELSE LET c == Head(text)
           low(x) == 128 + (x % 64)
           bytes ==
             IF c < 128 THEN <<c>>
             ELSE IF c < 2048 THEN <<192 + (c \div 64), low(c)>>
             ELSE IF c < 65536
               THEN <<224 + (c \div 4096), low(c \div 64), low(c)>>
             ELSE <<240 + (c \div 262144), low(c \div 4096),
                    low(c \div 64), low(c)>>
       IN  bytes \o Utf8Encode(Tail(text))

\* C4: when the length byte of one of the requested fields declares a
\* payload that runs past the end of the buffer, _parse_information
\* raises instead of returning fields, the last requested field included.
C4_OverrunRaises ==
  pc = "parsed" =>
    \A k \in 1..(arg.limit + 1) :
      Overruns(arg.data, k) => ret.exc # ""

\* C5: a read_informations call that returns, returns all 15 attributes
\* (and photo when it was asked for); no attribute is set on the instance
\* while the call runs, nor by a call that raises.
RecordNames ==
  {"num_carte", "debut_val", "fin_val", "commune_delivrance", "num_nat",
   "nom", "prenoms", "suffixe", "nationalite", "lieu_naissance",
   "date_naissance", "sexe", "adresse", "code_postal", "localite"}

C5_AllOrNothing ==
  /\ result.status = "ok" =>
       DOMAIN result.value =
         RecordNames \cup (IF photo THEN {"photo"} ELSE {})
  /\ pc # "idle" \/ result.status = "raised" => attrs = attrs0

\* A call raised after its identity file had been decoded, on an instance
\* that held the attributes of an earlier call.
C5_Witness ==
  /\ pc = "idle"
  /\ result.status = "raised"
  /\ Len(decoded) = 1
  /\ attrs # EmptyDict
  /\ attrs = attrs0

\* C6: the record a call returns has the photo attribute exactly when that
\* call asked for the photo, whatever earlier calls asked for.
C6_PhotoIffRequested ==
  result.status = "ok" => (("photo" \in DOMAIN result.value) <=> photo)

\* A call without photo returned on an instance that holds the photo of
\* an earlier call.
C6_Witness ==
  /\ result.status = "ok"
  /\ ~photo
  /\ "photo" \in DOMAIN attrs0
  /\ "photo" \notin DOMAIN result.value

\* C7: when the first m+1 fields of the buffer are complete,
\* _parse_information(buffer, m) returns m+1 strings, each the text of its
\* field's payload, and stops at the end of field m+1; when they are not
\* all complete it raises.
C7_ExactFields ==
  pc = "parsed" =>
    IF \A k \in 1..(arg.limit + 1) : Complete(arg.data, k)
      THEN /\ ret.exc = ""
           /\ Len(ret.infos) = arg.limit + 1
           /\ ret.idx = FieldEnd(arg.data, arg.limit + 1)
           /\ \A k \in 1..(arg.limit + 1) :
                Utf8Valid(Payload(arg.data, k), 1) =>
                  Utf8Encode(ret.infos[k]) = Payload(arg.data, k)
      ELSE ret.exc # ""

\* The buffer with the payload of field k replaced by ASCII letters.
Patched(buf, k) ==
  [i \in 1..Len(buf) |->
     IF i \in (FieldStart(buf, k) + 3)..FieldEnd(buf, k) THEN 65
     ELSE buf[i]]

\* C8: a requested field whose payload is not valid UTF-8 decodes to the
\* empty string; the call raises or returns, stops at the same cursor and
\* yields the same other fields as it does with that payload valid.
C8_BadFieldIsEmpty ==
  pc = "parsed" =>
    \A k \in 1..(arg.limit + 1) :
      Complete(arg.data, k) /\ ~Utf8Valid(Payload(arg.data, k), 1) =>
        LET good == _parse_information(Patched(arg.data, k), arg.limit)
        IN  /\ ret.exc = good.exc
            /\ ret.idx = good.idx
            /\ Len(ret.infos) = Len(good.infos)
            /\ ret.exc = "" =>
                 /\ ret.infos[k] = <<>>
                 /\ \A i \in 1..Len(ret.infos) :
                      i # k => ret.infos[i] = good.infos[i]

\* An undecodable first field followed by a decoded second one.
C8_Witness ==
  /\ pc = "parsed"
  /\ ret.exc = ""
  /\ Complete(arg.data, 1)
  /\ ~Utf8Valid(Payload(arg.data, 1), 1)
  /\ Len(ret.infos) = 2
  /\ ret.infos[1] = <<>>
  /\ ret.infos[2] = <<65>>

\* C9: the record's attributes are the decoded fields at fixed positions
\* (identity fields 0, 2..12 and address fields 0..2, 0-based), the dates
\* parsed; the golden identity and address files give the golden values,
\* and without a photo request there is no photo attribute.
C9_PositionalMapping ==
  result.status = "ok" =>
    LET r == result.value
        idf(k) == DecodeOrEmpty(Payload(decoded[1], k + 1))
        adf(k) == DecodeOrEmpty(Payload(decoded[2], k + 1))
    IN  /\ r.num_carte = idf(0)
        /\ r.debut_val = Strptime(idf(2), 46)
        /\ r.fin_val = Strptime(idf(3), 46)
        /\ r.commune_delivrance = idf(4)
        /\ r.num_nat = idf(5)
        /\ r.nom = idf(6)
        /\ r.prenoms = idf(7)
        /\ r.suffixe = idf(8)
        /\ r.nationalite = idf(9)
        /\ r.lieu_naissance = idf(10)
        /\ r.date_naissance = _parse_date(idf(11))
        /\ r.sexe = idf(12)
        /\ r.adresse = adf(0)
        /\ r.code_postal = adf(1)
        /\ r.localite = adf(2)
        /\ ~photo => "photo" \notin DOMAIN r
        /\ OnCard /\ transport.id = 1 /\ transport.addr = 1 =>
             /\ r.num_carte = <<65, 66, 67, 49, 50, 51>>
             /\ r.debut_val = <<2020, 1, 1>>
             /\ r.fin_val = <<2030, 1, 1>>
             /\ r.commune_delivrance = <<78, 97, 109, 117, 114>>
             /\ r.num_nat = <<56, 48, 48, 49, 49, 53, 49, 50, 51, 52, 53>>
             /\ r.nom = <<68, 117, 112, 111, 110, 116>>
             /\ r.prenoms = <<74, 101, 97, 110>>
             /\ r.suffixe = <<74, 114>>
             /\ r.nationalite = <<66, 101, 108, 103, 101>>
             /\ r.lieu_naissance = <<76, 105, 232, 103, 101>>
             /\ r.date_naissance = <<1980, 1, 15>>
             /\ r.sexe = <<77>>
             /\ r.adresse = <<82, 117, 101, 32, 72, 97, 117, 116, 101, 32, 49>>
             /\ r.code_postal = <<53, 48, 48, 48>>
             /\ r.localite = <<78, 97, 109, 117, 114>>

\* The golden card read without its photo.
C9_Witness ==
  /\ result.status = "ok"
  /\ OnCard
  /\ transport.id = 1
  /\ transport.addr = 1
  /\ ~photo
  /\ result.value.nom = <<68, 117, 112, 111, 110, 116>>

\* Day and year tokens strptime accepts, with their values.
GoodDays ==
  { <<<<49>>, 1>>, <<<<49, 53>>, 15>>, <<<<50, 56>>, 28>>,
    <<<<50, 57>>, 29>>, <<<<51, 49>>, 31>>, <<<<48, 53>>, 5>> }

GoodYears == { <<<<49, 57, 56, 48>>, 1980>>, <<<<50, 48, 48, 48>>, 2000>> }

MonthNumber(digits) == (digits[1] - 48) * 10 + (digits[2] - 48)

\* C10: _parse_date gives a month token of MAP_MOIS its month number and
\* any other token month 01, without raising: "15 JANV 1980" is 15 January
\* 1980 and "15 XXXX 1980" is in January.
C10_MonthLookup ==
  pc = "dated" =>
    /\ \A d \in GoodDays, m \in MonthTokens, y \in GoodYears :
         arg = d[1] \o <<32>> \o m \o <<32>> \o y[1] =>
           /\ \A e \in MAP_MOIS :
                e[1] = m =>
                  /\ ret \in {ValueError, <<y[2], MonthNumber(e[2]), d[2]>>}
                  /\ d[2] <= 28 => ret # ValueError
           /\ (\A e \in MAP_MOIS : e[1] # m) => ret = <<y[2], 1, d[2]>>
    /\ arg = <<49, 53, 32, 74, 65, 78, 86, 32, 49, 57, 56, 48>> =>
         ret = <<1980, 1, 15>>
    /\ arg = <<49, 53, 32, 88, 88, 88, 88, 32, 49, 57, 56, 48>> =>
         ret = <<1980, 1, 15>>
    /\ arg = <<49, 53, 32, 68, 69, 67, 32, 49, 57, 56, 48>> =>
         ret = <<1980, 12, 15>>

\* "31 XXXX 1980" parsed: 31 January 1980.
C10_Witness ==
  /\ pc = "dated"
  /\ arg = <<51, 49, 32, 88, 88, 88, 88, 32, 49, 57, 56, 48>>
  /\ ret = <<1980, 1, 31>>

(***************************************************************************)
(* C11                                                                     *)
(***************************************************************************)
\* C11: the constructor makes one connection attempt. When the attempt
\* fails, the constructor raises at once, with "Pas de lecteur disponible"
\* for a missing reader, "Pas de carte disponible" for a missing card and
\* the connection error message for a connection failure, three different
\* messages; no command has been transmitted, and none is transmitted
\* afterwards, since nothing happens to a reader whose constructor raised.
C11_ConnectOnceThenFail ==
  /\ [](pc = "new" <=> tried = <<>>)
  /\ [](pc # "new" => Len(tried) = 1)
  /\ [](pc = "dead" =>
          /\ result.status = "raised"
          /\ tried[1] = "IndexError" =>
               result.exc = "Pas de lecteur disponible"
          /\ tried[1] = "NoCardException" =>
               result.exc = "Pas de carte disponible"
          /\ tried[1] = "CardConnectionException" =>
               result.exc = "Erreur de connexion à la carte"
          /\ tried[1] # ""
          /\ sent = <<>>
          /\ rcvd = <<>>
          /\ selected = NoFile)
  /\ [][pc = "dead" => UNCHANGED vars]_vars
  /\ [][pc = "new" /\ tried'[1] # "" => pc' = "dead"]_vars

C11_Witness ==
  /\ pc = "dead"
  /\ tried = <<"NoCardException">>
  /\ result.exc = "Pas de carte disponible"

(***************************************************************************)
(* C12                                                                     *)
(***************************************************************************)
\* A read_informations call has ended on a connected reader.
CallEnded == pc = "idle" /\ result.status # "none"

\* C12 as stated: a call that ended left the attributes of the reader
\* object as they were when it was entered.
C12_AsStated == CallEnded => attrs = attrs0

\* C12: a call that returns a record sets every attribute of that record
\* on the reader object and leaves every other attribute as it was; a call
\* that raises leaves all of them as they were; attributes change at the
\* last step of the call only, and the connection of the reader is never
\* replaced.
C12_OnlyRecordAttributes ==
  /\ [](CallEnded /\ result.status = "ok" =>
          /\ DOMAIN attrs = DOMAIN attrs0 \cup DOMAIN result.value
          /\ \A k \in DOMAIN result.value : attrs[k] = result.value[k]
          /\ \A k \in DOMAIN attrs0 \ DOMAIN result.value :
               attrs[k] = attrs0[k])
  /\ [](CallEnded /\ result.status = "raised" => attrs = attrs0)
  /\ [][pc # "assign" => attrs' = attrs]_vars
  /\ [][transport' = transport]_vars

\* A call without photo returned on an instance that held a photo: the
\* record's attributes are set, the photo attribute is kept.
C12_Witness ==
  /\ CallEnded
  /\ result.status = "ok"
  /\ "photo" \in DOMAIN attrs0
  /\ "photo" \notin DOMAIN result.value
  /\ "nom" \in DOMAIN result.value
  /\ attrs["nom"] = result.value["nom"]
  /\ attrs["photo"] = attrs0["photo"]

(***************************************************************************)
(* C13                                                                     *)
(***************************************************************************)
\* C13: the READ BINARY that follows the SELECT of _read_data is at offset
\* 0; its length is sw2 of the SELECT's answer when that answer had
\* sw1 = 0x6C and 256 for every other status. What the SELECT's answer
\* carried as data is dropped: the step that sends the SELECT changes
\* neither the data that will be returned nor anything built from it.
C13_FirstReadLength ==
  /\ [](Len(sent) >= 2 =>
          /\ sent[1][2] = 164
          /\ sent[2] = <<0, 176, 0, 0,
                         IF rcvd[1].sw1 = 108 THEN rcvd[1].sw2 ELSE 256>>)
  /\ [][pc = "select" =>
          /\ data' = data
          /\ informations' = informations
          /\ photo_bytes' = photo_bytes]_vars

\* A SELECT answered 0x6C with sw2 = 2 and with data: the read asks for 2
\* bytes.
C13_Witness ==
  /\ pc = "ret"
  /\ rcvd[1].sw1 = 108
  /\ rcvd[1].data # <<>>
  /\ sent[2] = <<0, 176, 0, 0, 2>>
  /\ data # rcvd[1].data

(***************************************************************************)
(* C14                                                                     *)
(***************************************************************************)
\* The number of commands the _read_data call at the head of _read_photo
\* sent: SELECT, READ and the retry when there was one.
LoopBase == IF rcvd[2].sw1 = 108 THEN 3 ELSE 2

\* C14: in _read_photo the k-th READ BINARY of the loop (k = 0, 1, ...) is
\* at block offset k with length 256, and the corrected read sent when the
\* loop ends on sw1 = 0x6C is at the block offset of the read that
\* answered 0x6C, with length sw2 of that answer.
C14_LoopOffsets ==
  /\ [][pc = "loop" /\ sw1 = 144 /\ Len(sent') = Len(sent) + 1 =>
          sent'[Len(sent')] = <<0, 176, Len(sent) - LoopBase, 0, 256>>]_vars
  /\ [][pc = "loop" /\ sw1 = 108 /\ Len(sent') = Len(sent) + 1 =>
          sent'[Len(sent')] =
            <<0, 176, sent[Len(sent)][3], 0, rcvd[Len(rcvd)].sw2>>]_vars

(***************************************************************************)
(* C15                                                                     *)
(***************************************************************************)
\* The data of the responses from the i-th on, one after the other.
RECURSIVE ConcatData(_, _)
ConcatData(rs, i) ==
  IF i > Len(rs) THEN <<>> ELSE rs[i].data \o ConcatData(rs, i + 1)

\* C15 as stated: the bytes _read_photo returns are the data of all its
\* READ BINARY responses in the order received, the read of the initial
\* _read_data included.
C15_AsStated == pc = "photo_ret" => photo_bytes = ConcatData(rcvd, 2)

\* C15: the bytes _read_photo has accumulated, and returns, are the data
\* of the responses to the reads of its loop and to its corrected read, in
\* the order received; the data read by the initial _read_data is not
\* part of them.
C15_LoopDataOnly ==
  pc \in {"loop", "photo_ret"} =>
    photo_bytes = ConcatData(rcvd, LoopBase + 1)

\* A card with two full blocks and a partial one: block 0 is read twice
\* and returned once.
C15_Witness ==
  /\ pc = "photo_ret"
  /\ OnCard
  /\ transport.n = 2
  /\ Len(rcvd) = 6
  /\ rcvd[2].data = rcvd[3].data
  /\ Len(rcvd[2].data) = 256
  /\ photo_bytes = rcvd[3].data \o rcvd[4].data \o rcvd[6].data
  /\ photo_bytes = PhotoFile(2, transport.p)

(***************************************************************************)
(* C16                                                                     *)
(***************************************************************************)
\* The command that the step transmits, when it transmits one.
Transmits == Len(sent') = Len(sent) + 1
Transmitted == sent'[Len(sent')]

\* C16: within one read_informations call, the identity file is selected
\* before anything has been read, the address file once the identity file
\* has been read and decoded and while it is the selected file, the photo
\* file once the address file has been read and decoded, while it is the
\* selected file and only in a call that asked for the photo; every READ
\* BINARY is sent while the file being read is the one the most recent
\* SELECT named, in that same order.
C16_FileOrder ==
  [][Transmits =>
       /\ Transmitted[2] = 164 =>
            LET fid == SubSeq(Transmitted, 6, Len(Transmitted))
            IN  /\ fid \in {ID, ADDRESS, PHOTO}
                /\ fid = ID => decoded = <<>>
                /\ fid = ADDRESS => Len(decoded) = 1 /\ selected = ID
                /\ fid = PHOTO =>
                     Len(decoded) = 2 /\ selected = ADDRESS /\ photo
       /\ Transmitted[2] = 176 =>
            /\ selected = file
            /\ selected = SubSeq(sent[1], 6, Len(sent[1]))
            /\ selected = ID => decoded = <<>>
            /\ selected = ADDRESS => Len(decoded) = 1
            /\ selected = PHOTO => Len(decoded) = 2 /\ photo]_vars

\* The photo file is being read, after the identity and address files.
C16_Witness ==
  /\ pc = "photo_ret"
  /\ photo
  /\ selected = PHOTO
  /\ Len(decoded) = 2
  /\ Len(sent) >= 4
  /\ sent[1] = <<0, 164, 8, 12, 6>> \o PHOTO

(***************************************************************************)
(* C17                                                                     *)
(***************************************************************************)
\* The 256-byte blocks the card's photo file needs, and its size.
PhotoBlocks == transport.n + (IF transport.p > 0 THEN 1 ELSE 0)
PhotoSize == transport.n * 256 + transport.p

\* The block offsets of the READ BINARY commands sent for the photo file.
PhotoOffsets ==
  IF file = PHOTO
    THEN {sent[i][3] : i \in {j \in 1..Len(sent) : sent[j][2] = 176}}
    ELSE {}

\* C17 as stated: for a photo file that needs at most 256 blocks, every
\* READ BINARY of _read_photo has a block offset within 0..255.
C17_AsStated ==
  OnCard /\ PhotoBlocks <= 256 => PhotoOffsets \subseteq 0..255

\* C17: for a photo file of fewer than 65536 bytes every READ BINARY of
\* _read_photo has a block offset within 0..255; for a photo file of
\* 65536 bytes or more, the file of exactly 256 full blocks included,
\* _read_photo has sent a READ BINARY with block offset 256 when it
\* returns.
C17_OffsetWithinByte ==
  OnCard =>
    /\ PhotoSize < 65536 => PhotoOffsets \subseteq 0..255
    /\ PhotoSize >= 65536 /\ pc = "photo_ret" => 256 \in PhotoOffsets

\* The photo file of exactly 256 full blocks has been read: the last
\* command asked for block 256.
C17_Witness ==
  /\ pc = "photo_ret"
  /\ OnCard
  /\ transport.n = 256
  /\ transport.p = 0
  /\ PhotoBlocks = 256
  /\ sent[Len(sent)] = <<0, 176, 256, 0, 256>>
  /\ Len(photo_bytes) = 65536

(***************************************************************************)
(* C18                                                                     *)
(***************************************************************************)
\* C18: in _read_photo, while the last answer is 0x90 the only step is
\* one more read of the loop; after an answer of 0x6C exactly one more
\* command is sent and its data appended; after any other status no
\* command is sent; in both cases _read_photo then returns the bytes
\* accumulated, which the caller encodes without sending anything. In
\* each of the three cases the step can be taken, so that _read_photo
\* returns within two steps of the first answer that is not 0x90.
C18_LoopExit ==
  /\ [][pc = "loop" /\ sw1 = 144 =>
          pc' = "loop" /\ Len(sent') = Len(sent) + 1]_vars
  /\ [][pc = "loop" /\ sw1 = 108 =>
          /\ pc' = "photo_ret"
          /\ Len(sent') = Len(sent) + 1
          /\ photo_bytes' = photo_bytes \o rcvd'[Len(rcvd')].data]_vars
  /\ [][pc = "loop" /\ sw1 \notin {144, 108} =>
          /\ pc' = "photo_ret"
          /\ sent' = sent
          /\ photo_bytes' = photo_bytes]_vars
  /\ [][pc = "photo_ret" =>
          /\ sent' = sent
          /\ informations'["photo"] = B64Encode(photo_bytes)]_vars
  /\ [](pc = "loop" /\ sw1 = 144 => ENABLED LoopRead)
  /\ [](pc = "loop" /\ sw1 # 144 => ENABLED (FixRead \/ LoopEnd))

\* The loop made reads, the last of them was answered 0x6C, the corrected
\* read was sent and _read_photo returns.
C18_Witness ==
  /\ pc = "photo_ret"
  /\ offset >= 1
  /\ rcvd[Len(rcvd) - 1].sw1 = 108
  /\ Len(sent) = LoopBase + offset + 2
  /\ photo_bytes # <<>>

(***************************************************************************)
(* C19                                                                     *)
(***************************************************************************)
\* C19: after a read_informations call has returned a record, the
\* attributes held on the reader instance are exactly those of that
\* record, names and values; a call that raises leaves them as the last
\* successful call set them.
C19_AttrsMirrorRecord ==
  /\ CallEnded /\ result.status = "ok" => attrs = result.value
  /\ CallEnded /\ result.status = "raised" => attrs = attrs0

(***************************************************************************)
(* C20                                                                     *)
(***************************************************************************)
\* C20: a read_informations call returns a record only when each of its
\* file reads (identity, address, and photo when asked for) ended with
\* sw1 = 0x90.
C20_OnlySuccessDecoded ==
  CallEnded /\ result.status = "ok" => ~unclean

====
